---- MODULE Spec2Model ----
(***************************************************************************)
(* A model of mmyolo/datasets/utils.py (yolov5_collate, BatchShapePolicy,  *)
(* Keypoints) and of the SimOTA assigner configured in                     *)
(* configs/yolox/mmyolo_one_img.py.                                        *)
(*                                                                         *)
(* Arrays are records [shape, data]: shape is the numpy/torch shape tuple  *)
(* and data the nested sequences, so that an empty array (N = 0) still     *)
(* carries its trailing dimensions.  Coordinates are integers.  A call     *)
(* yields a record whose field raised tells whether it raised.             *)
(***************************************************************************)
EXTENDS Integers, Sequences, FiniteSets, TLC

VARIABLES
    kpt,          \* the caller's keypoint array, N x K x 2
    kpt_vis,      \* the caller's visibility array, N x K
    in_kpt,       \* history: kpt as first constructed
    in_vis,       \* history: kpt_vis as first constructed
    calls,        \* history: the calls made so far, [op, args]
    ret,          \* what the last call returned, [raised, val]
    data_batch,   \* the samples handed to yolov5_collate
    out_ms,       \* what yolov5_collate(data_batch, True) returned
    out_stack,    \* what yolov5_collate(data_batch, False) returned
    cost,             \* assigner: cost[p][g] of prediction p for ground truth g
    pairwise_ious,    \* assigner: IoU of p and g, in tenths
    selected,         \* assigner history: the matrix after dynamic-k selection
    matching_matrix,  \* assigner: matching_matrix[p][g] = 1 iff p is assigned to g
    assigned,         \* assigner: whether the assignment has been computed
    self,         \* the BatchShapePolicy object: its four fields
    data_list,    \* the data_list handed to BatchShapePolicy.__call__
    bsp_out       \* what BatchShapePolicy.__call__ returned

kptvars == <<kpt, kpt_vis, in_kpt, in_vis, calls, ret>>

colvars == <<data_batch, out_ms, out_stack>>

asgvars == <<cost, pairwise_ious, selected, matching_matrix, assigned>>

bspvars == <<self, data_list, bsp_out>>

vars == <<kptvars, colvars, asgvars, bspvars>>

-----------------------------------------------------------------------------
(* Bounds of the model.                                                    *)

\* At most this many instances in a keypoint array (N in 0..MaxInst).
MaxInst == 1

\* The keypoints the arrays are built from: left of the image, at its
\* origin, at (1, 1) (inside or beyond the far edges, by the image shape),
\* and above the image.
Points == {<<-1, 0>>, <<0, 0>>, <<1, 1>>, <<0, -1>>}

\* At most this many samples in a batch.
MaxBatch == 2

\* At most this many ground-truth instances per sample.
MaxGt == 2

\* At most this many candidate predictions of an image.
MaxPred == 2

\* At most this many ground truths of an image.
MaxGts == 2

\* At most this many items in a data_list.
MaxItems == 3

\* batch_size is drawn from 1..MaxBatchSize.
MaxBatchSize == 2

\* The costs of the model.
CostVals == {1, 2}

\* Visibility flags of the data model: 0 absent, 1 occluded, 2 visible.
Vis == {0, 1, 2}

\* Image shapes (height, width) the calls are given.
ImgShapes == {<<h, w>> : h \in {1, 2}, w \in {1, 2}}

Borders == {0, 1}

ScaleFactors == {<<2, 1>>, <<1, 3>>, <<-1, 2>>}

Distances == {<<1, 0>>, <<-1, 2>>}

\* Affine matrices, rows (m00, m01, m02), (m10, m11, m12), (0, 0, 1).
Matrices ==
    { <<<<1, 0, 0>>, <<0, 1, 0>>, <<0, 0, 1>>>>,
      <<<<0, 1, 0>>, <<1, 0, 0>>, <<0, 0, 1>>>>,
      <<<<2, 1, 1>>, <<1, 1, 0>>, <<0, 0, 1>>>>,
      <<<<1, 0, 2>>, <<-1, 1, 1>>, <<0, 0, 1>>>> }

Directions == {"horizontal", "vertical", "diagonal"}

-----------------------------------------------------------------------------
(* Array helpers.                                                          *)

\* An array of the given shape and nested data.
Arr(shape, data) == [shape |-> shape, data |-> data]

\* A call that returned val, leaving the arguments k (keypoints) and v
\* (visibility) as the in-place writes of the call left them.
Ok(val, k, v) == [raised |-> FALSE, val |-> val, kpt |-> k, kpt_vis |-> v]

\* A call that raised before writing anything.
Raise(k, v) == [raised |-> TRUE, val |-> "error", kpt |-> k, kpt_vis |-> v]

\* The rows and the columns of an N x K (x C) array.
Rows(a) == 1 .. a.shape[1]

Cols(a) == 1 .. a.shape[2]

RECURSIVE SeqMin(_)
\* min over a non-empty sequence, left to right.
SeqMin(s) ==
    IF Len(s) = 1 THEN s[1]
    ELSE LET m == SeqMin(Tail(s)) IN IF s[1] <= m THEN s[1] ELSE m

RECURSIVE SeqMax(_)
\* max over a non-empty sequence, left to right.
SeqMax(s) ==
    IF Len(s) = 1 THEN s[1]
    ELSE LET m == SeqMax(Tail(s)) IN IF s[1] >= m THEN s[1] ELSE m

RECURSIVE np_all(_)
\* np.all over the leading axis of a stack of booleans.
np_all(bs) == IF bs = <<>> THEN TRUE ELSE Head(bs) /\ np_all(Tail(bs))

RECURSIVE np_any(_)
\* np.any over the leading axis of a stack of booleans.
np_any(bs) == IF bs = <<>> THEN FALSE ELSE Head(bs) \/ np_any(Tail(bs))

-----------------------------------------------------------------------------
(* class Keypoints                                                         *)

\* Keypoints._kpt_rescale: in place, returns the array.
_kpt_rescale(k, scale_factor) ==
    IF Len(scale_factor) # 2 \/ k.shape[3] # 2 THEN Raise(k, "none")
    ELSE LET r == Arr(k.shape, [i \in Rows(k) |-> [j \in Cols(k) |->
                      <<k.data[i][j][1] * scale_factor[1],
                        k.data[i][j][2] * scale_factor[2]>>]])
         IN  Ok(r, r, "none")

\* Keypoints._kpt_translate: in place, returns the array.
_kpt_translate(k, distances) ==
    IF Len(distances) # 2 \/ k.shape[3] # 2 THEN Raise(k, "none")
    ELSE LET r == Arr(k.shape, [i \in Rows(k) |-> [j \in Cols(k) |->
                      <<k.data[i][j][1] + distances[1],
                        k.data[i][j][2] + distances[2]>>]])
         IN  Ok(r, r, "none")

\* The four comparisons the code stacks, for one keypoint p.
BoundFlags(p, img_shape, allowed_border) ==
    << p[1] >= allowed_border,
       p[1] < img_shape[2] - allowed_border,
       p[2] >= allowed_border,
       p[2] < img_shape[1] - allowed_border >>

\* The mutant: np.all in both branches.
_kpt_is_inside_all(k, img_shape, all_inside, allowed_border) ==
    IF Len(img_shape) # 2 \/ k.shape[3] # 2 THEN Raise(k, "none")
    ELSE Ok(Arr(<<k.shape[1], k.shape[2]>>,
                [i \in 1 .. k.shape[1] |-> [j \in 1 .. k.shape[2] |->
                    np_all(BoundFlags(k.data[i][j], img_shape, allowed_border))]]),
            k, "none")

\* Keypoints._kpt_is_inside: one flag per keypoint, N x K.
_kpt_is_inside(k, img_shape, all_inside, allowed_border) ==
    IF Len(img_shape) # 2 \/ k.shape[3] # 2 THEN Raise(k, "none")
    ELSE Ok(Arr(<<k.shape[1], k.shape[2]>>,
                [i \in 1 .. k.shape[1] |-> [j \in 1 .. k.shape[2] |->
                    IF all_inside
                    THEN np_all(BoundFlags(k.data[i][j], img_shape, allowed_border))
                    ELSE np_any(BoundFlags(k.data[i][j], img_shape, allowed_border))]]),
            k, "none")

\* The mutant: the mask is not negated, kpt_vis[flags] = 0.
_kpt_clip_unnegated(k, v, img_shape) ==
    IF Len(img_shape) # 2 \/ k.shape[3] # 2 \/ Len(v.shape) # 2 THEN Raise(k, v)
    ELSE LET flags == _kpt_is_inside(k, img_shape, FALSE, 0).val
             w == Arr(v.shape,
                      [i \in 1 .. v.shape[1] |-> [j \in 1 .. v.shape[2] |->
                          IF flags.data[i][j] THEN 0 ELSE v.data[i][j]]])
         IN  Ok(w, k, w)

\* Keypoints._kpt_clip: writes kpt_vis in place and returns it; kpt is read only.
_kpt_clip(k, v, img_shape) ==
    IF Len(img_shape) # 2 \/ k.shape[3] # 2 \/ Len(v.shape) # 2 THEN Raise(k, v)
    ELSE LET flags == _kpt_is_inside(k, img_shape, FALSE, 0).val
             w == Arr(v.shape,
                      [i \in 1 .. v.shape[1] |-> [j \in 1 .. v.shape[2] |->
                          IF ~flags.data[i][j] THEN 0 ELSE v.data[i][j]]])
         IN  Ok(w, k, w)

\* The mutant: y_t is computed from the already transformed x.
_affine_transform_pts_seq(x, y, matrix) ==
    LET x_t == matrix[1][1] * x + matrix[1][2] * y + matrix[1][3]
        y_t == matrix[2][1] * x_t + matrix[2][2] * y + matrix[2][3]
    IN  <<x_t, y_t>>

\* Keypoints._affine_transform_pts, for one point.
_affine_transform_pts(x, y, matrix) ==
    LET x_t == matrix[1][1] * x + matrix[1][2] * y + matrix[1][3]
        y_t == matrix[2][1] * x + matrix[2][2] * y + matrix[2][3]
    IN  <<x_t, y_t>>

\* The channels of the slice start::3 of a last axis of size c (1-based).
Slice3(start, c) == {ch \in 1 .. c : ch >= start /\ (ch - start) % 3 = 0}

\* Keypoints._kpt_project: the right-hand side is evaluated on the old values of
\* the slices 0::3 and 1::3, then both slices are written.
_kpt_project(k, homography_matrix) ==
    IF k.shape[3] # 2 THEN Raise(k, "none")
    ELSE LET xs == Slice3(1, k.shape[3])
             ys == Slice3(2, k.shape[3])
             r == Arr(k.shape, [i \in Rows(k) |-> [j \in Cols(k) |->
                     [ch \in 1 .. k.shape[3] |->
                         IF ch \in xs
                         THEN _affine_transform_pts(k.data[i][j][ch],
                                                    k.data[i][j][ch + 1],
                                                    homography_matrix)[1]
                         ELSE IF ch \in ys
                         THEN _affine_transform_pts(k.data[i][j][ch - 1],
                                                    k.data[i][j][ch],
                                                    homography_matrix)[2]
                         ELSE k.data[i][j][ch]]]])
         IN  Ok(r, r, "none")

\* The left/right symmetry table of the skeleton (metainfo['flip_indices']),
\* 1-based, for a skeleton of one symmetric pair (left_eye, right_eye).
flip_indices == <<2, 1>>

\* Number of keypoints per instance, K.
NumKpts == Len(flip_indices)

\* One keypoint mirrored in an image of width w and height h.
Mirror(p, w, h, direction) ==
    IF direction = "horizontal" THEN <<w - 1 - p[1], p[2]>>
    ELSE IF direction = "vertical" THEN <<p[1], h - 1 - p[2]>>
    ELSE <<w - p[1] - 1, h - p[2] - 1>>

RECURSIVE TakeInPlace(_, _, _)
\* row[j] = row[idx[j]] for j = from, from+1, ... written into the same row.
TakeInPlace(row, idx, from) ==
    IF from > Len(idx) THEN row
    ELSE TakeInPlace([row EXCEPT ![from] = row[idx[from]]], idx, from + 1)

\* The mutant: the symmetric pairs are swapped by copying within the array
\* itself instead of through a fancy-indexed copy.
flip_keypoints_inplace(keypoints, keypoints_visible, image_size, indices, direction) ==
    IF <<keypoints.shape[1], keypoints.shape[2]>> # keypoints_visible.shape
       \/ direction \notin Directions
    THEN Raise(keypoints, keypoints_visible)
    ELSE LET swap == direction \in {"horizontal", "vertical"}
             w == image_size[1]
             h == image_size[2]
             n == keypoints.shape[1]
             kk == keypoints.shape[2]
             perm == IF swap
                     THEN Arr(keypoints.shape,
                              [i \in 1 .. n |->
                                  TakeInPlace(keypoints.data[i], indices, 1)])
                     ELSE keypoints
             pvis == IF swap
                     THEN Arr(keypoints_visible.shape,
                              [i \in 1 .. n |->
                                  TakeInPlace(keypoints_visible.data[i], indices, 1)])
                     ELSE keypoints_visible
             flipped == Arr(perm.shape, [i \in Rows(perm) |-> [j \in Cols(perm) |->
                            Mirror(perm.data[i][j], w, h, direction)]])
         IN  Ok(<<flipped, pvis>>, keypoints, keypoints_visible)

\* mmpose's flip_keypoints: swap the symmetric pairs (horizontal and vertical
\* only), then mirror; w, h = image_size.  The arguments are not written.
flip_keypoints(keypoints, keypoints_visible, image_size, indices, direction) ==
    IF <<keypoints.shape[1], keypoints.shape[2]>> # keypoints_visible.shape
       \/ direction \notin Directions
    THEN Raise(keypoints, keypoints_visible)
    ELSE LET swap == direction \in {"horizontal", "vertical"}
             w == image_size[1]
             h == image_size[2]
             n == keypoints.shape[1]
             kk == keypoints.shape[2]
             perm == IF swap
                     THEN Arr(keypoints.shape,
                              [i \in 1 .. n |-> [j \in 1 .. kk |->
                                  keypoints.data[i][indices[j]]]])
                     ELSE keypoints
             pvis == IF swap
                     THEN Arr(keypoints_visible.shape,
                              [i \in 1 .. n |-> [j \in 1 .. kk |->
                                  keypoints_visible.data[i][indices[j]]]])
                     ELSE keypoints_visible
             flipped == Arr(perm.shape, [i \in Rows(perm) |-> [j \in Cols(perm) |->
                            Mirror(perm.data[i][j], w, h, direction)]])
         IN  Ok(<<flipped, pvis>>, keypoints, keypoints_visible)

\* Keypoints._kpt_flip: img_shape is handed on as image_size.
_kpt_flip(k, v, img_shape, direction) ==
    flip_keypoints(k, v, img_shape, flip_indices, direction)

\* The mutant: the last two channels, kpt[..., -2:], instead of the first two.
_kpt_area_last2(t) ==
    IF Len(t.shape) # 3 \/ t.shape[3] \notin {2, 3} THEN Raise(t, "none")
    ELSE IF t.shape[2] = 0 THEN Raise(t, "none")
    ELSE LET c == t.shape[3]
             xs(i) == [j \in 1 .. t.shape[2] |-> t.data[i][j][c - 1]]
             ys(i) == [j \in 1 .. t.shape[2] |-> t.data[i][j][c]]
         IN  Ok(Arr(<<t.shape[1]>>,
                    [i \in 1 .. t.shape[1] |->
                        (SeqMax(xs(i)) - SeqMin(xs(i)))
                        * (SeqMax(ys(i)) - SeqMin(ys(i)))]),
                t, "none")

\* The mutant: min() and max() over the whole tensor, which raise on an
\* empty one.
_kpt_area_global(t) ==
    IF Len(t.shape) # 3 \/ t.shape[3] \notin {2, 3} THEN Raise(t, "none")
    ELSE IF t.shape[2] = 0 \/ t.shape[1] = 0 THEN Raise(t, "none")
    ELSE LET xs(i) == [j \in 1 .. t.shape[2] |-> t.data[i][j][1]]
             ys(i) == [j \in 1 .. t.shape[2] |-> t.data[i][j][2]]
         IN  Ok(Arr(<<t.shape[1]>>,
                    [i \in 1 .. t.shape[1] |->
                        (SeqMax(xs(i)) - SeqMin(xs(i)))
                        * (SeqMax(ys(i)) - SeqMin(ys(i)))]),
                t, "none")

\* Keypoints._kpt_area: a torch tensor N x K x C, C in {2, 3}; min and max
\* over the K axis, which torch refuses to reduce when it is empty.
_kpt_area(t) ==
    IF Len(t.shape) # 3 \/ t.shape[3] \notin {2, 3} THEN Raise(t, "none")
    ELSE IF t.shape[2] = 0 THEN Raise(t, "none")
    ELSE LET xs(i) == [j \in 1 .. t.shape[2] |-> t.data[i][j][1]]
             ys(i) == [j \in 1 .. t.shape[2] |-> t.data[i][j][2]]
         IN  Ok(Arr(<<t.shape[1]>>,
                    [i \in 1 .. t.shape[1] |->
                        (SeqMax(xs(i)) - SeqMin(xs(i)))
                        * (SeqMax(ys(i)) - SeqMin(ys(i)))]),
                t, "none")

-----------------------------------------------------------------------------
(* yolov5_collate                                                          *)

RECURSIVE torch_cat(_)
\* torch.cat(tensors, 0) of a non-empty list of 2-D tensors: their rows, in
\* list order.
torch_cat(ts) == IF ts = <<>> THEN <<>> ELSE Head(ts) \o torch_cat(Tail(ts))

\* torch.stack(tensors, 0) of a non-empty list of equally shaped tensors: a
\* new leading axis indexing the list.
torch_stack(ts) ==
    Arr(<<Len(ts)>> \o ts[1].shape, [i \in 1 .. Len(ts) |-> ts[i].data])

\* Whether torch.stack raises: an empty list, or tensors of different shapes.
StackRaises(ts) ==
    \/ ts = <<>>
    \/ \E i \in 1 .. Len(ts) : ts[i].shape # ts[1].shape

\* The rows of sample i (0-based): torch.cat((batch_idx, gt_labels[:, None],
\* gt_bboxes), dim=1), batch_idx filled with i.
bboxes_labels(sample, i) ==
    [r \in 1 .. Len(sample.labels) |->
        <<i, sample.labels[r]>> \o sample.bboxes[r]]

\* The mutant: batch_idx is filled with 0 for every sample.
yolov5_collate_idx0(batch, use_ms_training) ==
    LET batch_bboxes_labels ==
            [i \in 1 .. Len(batch) |-> bboxes_labels(batch[i], 0)]
        batch_imgs == [i \in 1 .. Len(batch) |-> batch[i].inputs]
    IN  IF \E i \in 1 .. Len(batch) :
               Len(batch[i].labels) # Len(batch[i].bboxes)
        THEN [raised |-> TRUE]
        ELSE IF use_ms_training
        THEN IF batch_bboxes_labels = <<>> THEN [raised |-> TRUE]
             ELSE [raised |-> FALSE, inputs |-> batch_imgs,
                   data_samples |-> torch_cat(batch_bboxes_labels)]
        ELSE IF StackRaises(batch_imgs) \/ batch_bboxes_labels = <<>>
             THEN [raised |-> TRUE]
             ELSE [raised |-> FALSE, inputs |-> torch_stack(batch_imgs),
                   data_samples |-> torch_cat(batch_bboxes_labels)]

\* The mutant: with use_ms_training the table is built from the per-sample
\* row index 0 instead of the batch index.
yolov5_collate_msidx(batch, use_ms_training) ==
    LET batch_bboxes_labels ==
            [i \in 1 .. Len(batch) |->
                bboxes_labels(batch[i], IF use_ms_training THEN 0 ELSE i - 1)]
        batch_imgs == [i \in 1 .. Len(batch) |-> batch[i].inputs]
    IN  IF \E i \in 1 .. Len(batch) :
               Len(batch[i].labels) # Len(batch[i].bboxes)
        THEN [raised |-> TRUE]
        ELSE IF use_ms_training
        THEN IF batch_bboxes_labels = <<>> THEN [raised |-> TRUE]
             ELSE [raised |-> FALSE, inputs |-> batch_imgs,
                   data_samples |-> torch_cat(batch_bboxes_labels)]
        ELSE IF StackRaises(batch_imgs) \/ batch_bboxes_labels = <<>>
             THEN [raised |-> TRUE]
             ELSE [raised |-> FALSE, inputs |-> torch_stack(batch_imgs),
                   data_samples |-> torch_cat(batch_bboxes_labels)]

\* yolov5_collate: the loop over the samples, then the stacked or the listed
\* inputs and the concatenated table.  torch.cat needs equally many labels
\* and boxes per sample and a non-empty list.
yolov5_collate(batch, use_ms_training) ==
    LET batch_bboxes_labels ==
            [i \in 1 .. Len(batch) |-> bboxes_labels(batch[i], i - 1)]
        batch_imgs == [i \in 1 .. Len(batch) |-> batch[i].inputs]
    IN  IF \E i \in 1 .. Len(batch) :
               Len(batch[i].labels) # Len(batch[i].bboxes)
        THEN [raised |-> TRUE]
        ELSE IF use_ms_training
        THEN IF batch_bboxes_labels = <<>> THEN [raised |-> TRUE]
             ELSE [raised |-> FALSE, inputs |-> batch_imgs,
                   data_samples |-> torch_cat(batch_bboxes_labels)]
        ELSE IF StackRaises(batch_imgs) \/ batch_bboxes_labels = <<>>
             THEN [raised |-> TRUE]
             ELSE [raised |-> FALSE, inputs |-> torch_stack(batch_imgs),
                   data_samples |-> torch_cat(batch_bboxes_labels)]

\* The image tensors of the samples: one or two pixels.
Images == {Arr(<<1>>, <<0>>), Arr(<<1>>, <<1>>), Arr(<<2>>, <<0, 1>>)}

\* Ground-truth instances: a class label and a box (x1, y1, x2, y2).
Instances == {[label |-> 0, bbox |-> <<1, 1, 2, 2>>],
              [label |-> 1, bbox |-> <<0, 2, 3, 4>>]}

\* The samples: an image and up to MaxGt instances, as labels and boxes.
Samples ==
    UNION {{[inputs |-> img,
             labels |-> [r \in 1 .. n |-> g[r].label],
             bboxes |-> [r \in 1 .. n |-> g[r].bbox]] :
                img \in Images, g \in [1 .. n -> Instances]} : n \in 0 .. MaxGt}

\* The value of out_ms and out_stack before the call.
NotCalled == [pending |-> TRUE]

\* No collation going on (the other components' specifications).
ColIdle ==
    /\ data_batch = <<>>
    /\ out_ms = NotCalled
    /\ out_stack = NotCalled

-----------------------------------------------------------------------------
(* The SimOTA assigner (train_cfg.assigner): dynamic-k selection and       *)
(* conflict resolution over a cost matrix and an IoU matrix.               *)

\* q: the number of top IoUs summed to estimate k.
candidate_topk == 10

\* The IoUs of the model, held in tenths: 0.3 and 1.0.
IouVals == {3, 10}

RECURSIVE SumSeq(_)
SumSeq(s) == IF s = <<>> THEN 0 ELSE Head(s) + SumSeq(Tail(s))

RECURSIVE SortDesc(_)
\* The values of a sequence, largest first.
SortDesc(s) ==
    IF s = <<>> THEN <<>>
    ELSE LET i == CHOOSE a \in 1 .. Len(s) : \A b \in 1 .. Len(s) : s[b] <= s[a]
         IN  <<s[i]>> \o SortDesc([j \in 1 .. Len(s) - 1 |->
                                      IF j < i THEN s[j] ELSE s[j + 1]])

\* k of ground truth g: the sum of its top-q IoUs rounded down, at least 1;
\* q is candidate_topk capped at the number of candidates.
dynamic_k(ious, g) ==
    LET n == Len(ious)
        q == IF candidate_topk < n THEN candidate_topk ELSE n
        col == [p \in 1 .. n |-> ious[p][g]]
        total == SumSeq(SubSeq(SortDesc(col), 1, q)) \div 10
    IN  IF total < 1 THEN 1 ELSE total

\* The sets of k predictions of lowest cost for ground truth g: every
\* selected prediction costs no more than any prediction left out (ties are
\* broken by the top-k routine, in no documented order).
LowestK(c, g, k) ==
    {S \in SUBSET (1 .. Len(c)) :
        /\ Cardinality(S) = k
        /\ \A p \in S, r \in (1 .. Len(c)) \ S : c[p][g] <= c[r][g]}

\* The ground truths that prediction p is matched to in m.
MatchedGts(m, p, ngt) == {g \in 1 .. ngt : m[p][g] = 1}

\* The mutant: the conflicting row is not cleared before the lowest-cost
\* assignment is set.
ResolveConflicts_keep(m, c, ngt) == m

\* Conflict resolution: a prediction matched to more than one ground truth
\* keeps only its assignment of lowest cost (the first of equal costs).
ResolveConflicts(m, c, ngt) ==
    [p \in 1 .. Len(m) |->
        LET gs == MatchedGts(m, p, ngt)
        IN  IF Cardinality(gs) > 1
            THEN LET best == CHOOSE g \in gs :
                                \A h \in gs : c[p][g] < c[p][h]
                                              \/ (c[p][g] = c[p][h] /\ g <= h)
                 IN  [g \in 1 .. ngt |-> IF g = best THEN 1 ELSE 0]
            ELSE m[p]]

\* No assignment going on (the other components' specifications).
AsgIdle ==
    /\ cost = <<>>
    /\ pairwise_ious = <<>>
    /\ selected = <<>>
    /\ matching_matrix = <<>>
    /\ assigned = FALSE

-----------------------------------------------------------------------------
(* class BatchShapePolicy.  The float64 ratios are held as exact fractions *)
(* <<numerator, denominator>> with a positive denominator.                 *)

\* a < b, a = b and a <= b for fractions.
FracLess(a, b) == a[1] * b[2] < b[1] * a[2]

FracEq(a, b) == a[1] * b[2] = b[1] * a[2]

FracLeq(a, b) == a[1] * b[2] <= b[1] * a[2]

\* aspect_ratio = image_shapes[:, 1] / image_shapes[:, 0]: height / width.
aspect_ratio(dl) == [i \in 1 .. Len(dl) |-> <<dl[i].height, dl[i].width>>]

\* batch_index of the item at 1-based position i: floor((i - 1) / batch_size).
batch_index(i, batch_size) == (i - 1) \div batch_size

\* The results argsort may give: the permutations that put the ratios in
\* non-decreasing order (the default sort is not stable, so equal ratios
\* come in any order).
ArgSorts(ar) ==
    {irect \in [1 .. Len(ar) -> 1 .. Len(ar)] :
        /\ \A i, j \in 1 .. Len(ar) : i # j => irect[i] # irect[j]
        /\ \A i \in 1 .. Len(ar) - 1 : FracLeq(ar[irect[i]], ar[irect[i + 1]])}

\* The mutant: data_list is left in its input order.
Reorder_kept(dl, irect) == dl

\* data_list = [data_list[i] for i in irect]
Reorder(dl, irect) == [i \in 1 .. Len(dl) |-> dl[irect[i]]]

\* The mutant: aspect_ratio is left in its input order.
SortedRatios_kept(ar, irect) == ar

\* aspect_ratio = aspect_ratio[irect]
SortedRatios(ar, irect) == [i \in 1 .. Len(ar) |-> ar[irect[i]]]

RECURSIVE FracMin(_)
\* ndarray.min() of a non-empty sequence of fractions.
FracMin(s) ==
    IF Len(s) = 1 THEN s[1]
    ELSE LET m == FracMin(Tail(s)) IN IF FracLeq(s[1], m) THEN s[1] ELSE m

RECURSIVE FracMax(_)
\* ndarray.max() of a non-empty sequence of fractions.
FracMax(s) ==
    IF Len(s) = 1 THEN s[1]
    ELSE LET m == FracMax(Tail(s)) IN IF FracLeq(m, s[1]) THEN s[1] ELSE m

\* aspect_ratio[batch_index == b]: the ratios at the positions of batch b.
BatchRatios(ar, b, batch_size) ==
    LET first == b * batch_size + 1
        last == IF (b + 1) * batch_size < Len(ar) THEN (b + 1) * batch_size
                ELSE Len(ar)
    IN  SubSeq(ar, first, last)

\* shapes[b]: [max, 1] when the batch's ratios are all below 1, [1, 1 / min]
\* when all are above 1, [1, 1] otherwise.
BatchRatioShape(ar, b, batch_size) ==
    LET aspect_ratio_index == BatchRatios(ar, b, batch_size)
        min_index == FracMin(aspect_ratio_index)
        max_index == FracMax(aspect_ratio_index)
    IN  IF FracLess(max_index, <<1, 1>>) THEN <<max_index, <<1, 1>>>>
        ELSE IF FracLess(<<1, 1>>, min_index)
        THEN <<<<1, 1>>, <<min_index[2], min_index[1]>>>>
        ELSE <<<<1, 1>>, <<1, 1>>>>

\* ceil(r * img_size / size_divisor + extra_pad_ratio) * size_divisor for a
\* fraction r >= 0.
PadToDivisor(r, policy) ==
    LET num == r[1] * policy.img_size * policy.extra_pad_ratio[2]
               + policy.extra_pad_ratio[1] * r[2] * policy.size_divisor
        den == r[2] * policy.size_divisor * policy.extra_pad_ratio[2]
    IN  ((num + den - 1) \div den) * policy.size_divisor

\* BatchShapePolicy.__call__ for one outcome irect of argsort.  An empty
\* data_list raises at batch_index[-1].
BatchShapePolicy_call(policy, dl, irect) ==
    IF dl = <<>> THEN [raised |-> TRUE]
    ELSE LET n == Len(dl)
             number_of_batches == batch_index(n, policy.batch_size) + 1
             sorted == Reorder(dl, irect)
             ar == SortedRatios(aspect_ratio(dl), irect)
             shapes == [b \in 1 .. number_of_batches |->
                           BatchRatioShape(ar, b - 1, policy.batch_size)]
             batch_shapes == [b \in 1 .. number_of_batches |->
                                 <<PadToDivisor(shapes[b][1], policy),
                                   PadToDivisor(shapes[b][2], policy)>>]
         IN  [raised |-> FALSE,
              shapes |-> shapes,
              data_list |->
                 [i \in 1 .. n |->
                     [id |-> sorted[i].id,
                      width |-> sorted[i].width,
                      height |-> sorted[i].height,
                      batch_shape |->
                         batch_shapes[batch_index(i, policy.batch_size) + 1]]]]

\* The widths and heights of the images.
Dims == {1, 2, 3}

\* (img_size, size_divisor) of the policies.
Sizes == {<<8, 2>>, <<6, 4>>}

\* extra_pad_ratio of the policies: 0.5 (the default) and 0.
PadRatios == {<<1, 2>>, <<0, 1>>}

\* No batch shaping going on (the other components' specifications).
BspIdle ==
    /\ self = [batch_size |-> 1]
    /\ data_list = <<>>
    /\ bsp_out = NotCalled

-----------------------------------------------------------------------------
(* The keypoint utilities as a state machine: the caller holds kpt and     *)
(* kpt_vis, makes one call on them, and may flip a flipped pair again      *)
(* with the same arguments.                                                *)

\* The tensor handed to _kpt_area: the first k keypoints of every instance,
\* with the visibility as a third channel when with_vis.
AreaInput(k, with_vis) ==
    Arr(<<kpt.shape[1], k, IF with_vis THEN 3 ELSE 2>>,
        [i \in 1 .. kpt.shape[1] |-> [j \in 1 .. k |->
            IF with_vis THEN Append(kpt.data[i][j], kpt_vis.data[i][j])
            ELSE kpt.data[i][j]]])

KptInit ==
    /\ \E n \in 0 .. MaxInst :
         /\ \E d \in [1 .. n -> [1 .. NumKpts -> Points]] :
              kpt = Arr(<<n, NumKpts, 2>>, d)
         /\ \E d \in [1 .. n -> [1 .. NumKpts -> Vis]] :
              kpt_vis = Arr(<<n, NumKpts>>, d)
    /\ in_kpt = kpt
    /\ in_vis = kpt_vis
    /\ calls = <<>>
    /\ ret = "none"
    /\ ColIdle
    /\ AsgIdle
    /\ BspIdle

\* What a call leaves behind: the arrays as written in place, the return value.
Called(op, args, r) ==
    /\ calls' = Append(calls, [op |-> op, args |-> args])
    /\ ret' = [raised |-> r.raised, val |-> r.val]
    /\ UNCHANGED <<in_kpt, in_vis, colvars, asgvars, bspvars>>

Rescale ==
    /\ calls = <<>>
    /\ \E sf \in ScaleFactors :
         LET r == _kpt_rescale(kpt, sf)
         IN  /\ Called("rescale", <<sf>>, r)
             /\ kpt' = r.kpt
             /\ UNCHANGED kpt_vis

Translate ==
    /\ calls = <<>>
    /\ \E d \in Distances :
         LET r == _kpt_translate(kpt, d)
         IN  /\ Called("translate", <<d>>, r)
             /\ kpt' = r.kpt
             /\ UNCHANGED kpt_vis

Clip ==
    /\ calls = <<>>
    /\ \E s \in ImgShapes :
         LET r == _kpt_clip(kpt, kpt_vis, s)
         IN  /\ Called("clip", <<s>>, r)
             /\ kpt' = r.kpt
             /\ kpt_vis' = r.kpt_vis

IsInside ==
    /\ calls = <<>>
    /\ \E s \in ImgShapes, a \in BOOLEAN, b \in Borders :
         LET r == _kpt_is_inside(kpt, s, a, b)
         IN  /\ Called("is_inside", <<s, a, b>>, r)
             /\ kpt' = r.kpt
             /\ UNCHANGED kpt_vis

Project ==
    /\ calls = <<>>
    /\ \E m \in Matrices :
         LET r == _kpt_project(kpt, m)
         IN  /\ Called("project", <<m>>, r)
             /\ kpt' = r.kpt
             /\ UNCHANGED kpt_vis

\* kpt, kpt_vis = Keypoints._kpt_flip(kpt, kpt_vis, img_shape, direction),
\* and once more with the same img_shape and direction.
Flip ==
    /\ \/ calls = <<>>
       \/ Len(calls) = 1 /\ calls[1].op = "flip"
    /\ \E s \in ImgShapes, d \in Directions :
         LET r == _kpt_flip(kpt, kpt_vis, s, d)
         IN  /\ calls # <<>> => calls[1].args = <<s, d>>
             /\ Called("flip", <<s, d>>, r)
             /\ kpt' = IF r.raised THEN kpt ELSE r.val[1]
             /\ kpt_vis' = IF r.raised THEN kpt_vis ELSE r.val[2]

Area ==
    /\ calls = <<>>
    /\ \E k \in 0 .. NumKpts, with_vis \in BOOLEAN :
         LET r == _kpt_area(AreaInput(k, with_vis))
         IN  /\ Called("area", <<k, with_vis>>, r)
             /\ UNCHANGED <<kpt, kpt_vis>>

KptNext ==
    \/ Rescale
    \/ Translate
    \/ Clip
    \/ IsInside
    \/ Project
    \/ Flip
    \/ Area

SpecKpt == KptInit /\ [][KptNext]_vars

-----------------------------------------------------------------------------
(* Properties of the keypoint utilities (under SpecKpt).                   *)

\* The operation of the last call, and its arguments.
LastOp == IF calls = <<>> THEN "none" ELSE calls[Len(calls)].op

LastArgs == calls[Len(calls)].args

\* p lies in [0, width) x [0, height), img_shape = (height, width).
InImage(p, img_shape) ==
    /\ 0 <= p[1] /\ p[1] < img_shape[2]
    /\ 0 <= p[2] /\ p[2] < img_shape[1]

\* The index pairs (i, j) of an N x K array.
Cells(a) == (1 .. a.shape[1]) \X (1 .. a.shape[2])

SetMax(S) == CHOOSE m \in S : \A v \in S : v <= m

SetMin(S) == CHOOSE m \in S : \A v \in S : m <= v

\* C1: after _kpt_clip(kpt, kpt_vis, (height, width)), height > 0 and
\* width > 0, every keypoint with x outside [0, width) or y outside
\* [0, height) has visibility 0 in the returned kpt_vis.
C1_ClipZeroesOutside ==
    (LastOp = "clip" /\ ~ret.raised) =>
        \A c \in Cells(in_kpt) :
            ~InImage(in_kpt.data[c[1]][c[2]], LastArgs[1])
                => ret.val.data[c[1]][c[2]] = 0

\* C2: _kpt_is_inside returns one boolean per keypoint: with all_inside the
\* conjunction, without it the disjunction, of x >= border,
\* x < width - border, y >= border, y < height - border.
C2_IsInsideFlags ==
    LastOp = "is_inside" =>
        LET s == LastArgs[1]
            all_inside == LastArgs[2]
            b == LastArgs[3]
        IN  /\ ~ret.raised
            /\ ret.val.shape = <<in_kpt.shape[1], in_kpt.shape[2]>>
            /\ \A c \in Cells(in_kpt) :
                 LET x == in_kpt.data[c[1]][c[2]][1]
                     y == in_kpt.data[c[1]][c[2]][2]
                 IN  ret.val.data[c[1]][c[2]] <=>
                        IF all_inside
                        THEN x >= b /\ x < s[2] - b /\ y >= b /\ y < s[1] - b
                        ELSE x >= b \/ x < s[2] - b \/ y >= b \/ y < s[1] - b

\* An any-mode call that returns both a false and a true flag.
C2_Witness ==
    /\ LastOp = "is_inside"
    /\ ~LastArgs[2]
    /\ \E c, d \in Cells(in_kpt) :
         ~ret.val.data[c[1]][c[2]] /\ ret.val.data[d[1]][d[2]]

\* C5: flipping twice with the same direction and image shape, the second
\* call on what the first returned, gives back the original keypoints and
\* visibility.
C5_FlipInvolution ==
    (/\ Len(calls) = 2
     /\ calls[1].op = "flip" /\ calls[2].op = "flip"
     /\ calls[1].args = calls[2].args) =>
        /\ ~ret.raised
        /\ kpt = in_kpt
        /\ kpt_vis = in_vis

\* Two horizontal flips of an instance whose paired keypoints differ in
\* position and in visibility.
C5_Witness ==
    /\ Len(calls) = 2
    /\ calls[1].op = "flip" /\ calls[2].op = "flip"
    /\ calls[1].args = calls[2].args
    /\ calls[1].args[2] = "horizontal"
    /\ in_kpt.shape[1] >= 1
    /\ in_kpt.data[1][1] # in_kpt.data[1][2]
    /\ in_vis.data[1][1] # in_vis.data[1][2]

\* C6: every keypoint utility called on a zero-instance keypoint set (N = 0,
\* K >= 1 keypoints) returns, without raising, an empty result of the
\* input's shape.
C6_ZeroInstance ==
    (/\ in_kpt.shape[1] = 0
     /\ calls # <<>>
     /\ ~(LastOp = "area" /\ LastArgs[1] = 0)) =>
        /\ ~ret.raised
        /\ CASE LastOp \in {"rescale", "translate", "project"} ->
                    ret.val = Arr(<<0, NumKpts, 2>>, <<>>)
             [] LastOp \in {"clip", "is_inside"} ->
                    ret.val = Arr(<<0, NumKpts>>, <<>>)
             [] LastOp = "flip" ->
                    /\ ret.val[1] = Arr(<<0, NumKpts, 2>>, <<>>)
                    /\ ret.val[2] = Arr(<<0, NumKpts>>, <<>>)
             [] LastOp = "area" ->
                    ret.val = Arr(<<0>>, <<>>)

\* _kpt_area on a tensor of no instance and K >= 1 keypoints.
C6_Witness ==
    /\ in_kpt.shape[1] = 0
    /\ LastOp = "area"
    /\ LastArgs[1] >= 1
    /\ ~ret.raised

\* C7: _kpt_project maps each keypoint (x, y) to
\* (m00 x + m01 y + m02, m10 x + m11 y + m12), both from the original x and
\* y, and keeps the number and order of the keypoints.
C7_ProjectAffine ==
    LastOp = "project" =>
        LET m == LastArgs[1]
        IN  /\ ~ret.raised
            /\ ret.val = kpt
            /\ kpt.shape = in_kpt.shape
            /\ Len(kpt.data) = in_kpt.shape[1]
            /\ \A i \in 1 .. in_kpt.shape[1] : Len(kpt.data[i]) = in_kpt.shape[2]
            /\ \A c \in Cells(in_kpt) :
                 LET x == in_kpt.data[c[1]][c[2]][1]
                     y == in_kpt.data[c[1]][c[2]][2]
                 IN  kpt.data[c[1]][c[2]] =
                        << m[1][1] * x + m[1][2] * y + m[1][3],
                           m[2][1] * x + m[2][2] * y + m[2][3] >>

\* A projection that moves some x and whose new y depends on x.
C7_Witness ==
    /\ LastOp = "project"
    /\ LastArgs[1][2][1] # 0
    /\ \E c \in Cells(in_kpt) :
         kpt.data[c[1]][c[2]][1] # in_kpt.data[c[1]][c[2]][1]

\* C8: _kpt_area of an N x K x C tensor, C in {2, 3}, K >= 1, is per instance
\* (max_x - min_x) * (max_y - min_y) over its K keypoints, from the x and y
\* channels only; it is >= 0, and 0 when K = 1.
C8_AreaBox ==
    (LastOp = "area" /\ LastArgs[1] >= 1) =>
        LET k == LastArgs[1]
            X(i) == {in_kpt.data[i][j][1] : j \in 1 .. k}
            Y(i) == {in_kpt.data[i][j][2] : j \in 1 .. k}
        IN  /\ ~ret.raised
            /\ ret.val.shape = <<in_kpt.shape[1]>>
            /\ \A i \in 1 .. in_kpt.shape[1] :
                 /\ ret.val.data[i] =
                        (SetMax(X(i)) - SetMin(X(i))) * (SetMax(Y(i)) - SetMin(Y(i)))
                 /\ ret.val.data[i] >= 0
                 /\ k = 1 => ret.val.data[i] = 0

\* The area of a three-channel tensor whose box is not degenerate and whose
\* visibility channel is not constant.
C8_Witness ==
    /\ LastOp = "area"
    /\ LastArgs = <<NumKpts, TRUE>>
    /\ in_kpt.shape[1] >= 1
    /\ ret.val.data[1] > 0
    /\ in_vis.data[1][1] # in_vis.data[1][2]

\* C9: _kpt_clip leaves every coordinate as it was, and leaves the
\* visibility of every keypoint inside [0, width) x [0, height) as it was.
C9_ClipFrame ==
    LastOp = "clip" =>
        /\ ~ret.raised
        /\ kpt = in_kpt
        /\ ret.val = kpt_vis
        /\ \A c \in Cells(in_kpt) :
             InImage(in_kpt.data[c[1]][c[2]], LastArgs[1])
                => kpt_vis.data[c[1]][c[2]] = in_vis.data[c[1]][c[2]]

\* A clip of an instance with a visible keypoint inside the image and a
\* keypoint outside it.
C9_Witness ==
    /\ LastOp = "clip"
    /\ \E c, d \in Cells(in_kpt) :
         /\ InImage(in_kpt.data[c[1]][c[2]], LastArgs[1])
         /\ in_vis.data[c[1]][c[2]] = 2
         /\ ~InImage(in_kpt.data[d[1]][d[2]], LastArgs[1])

-----------------------------------------------------------------------------
(* Batch collation as a state machine: one batch, collated in either mode. *)

KptIdle ==
    /\ kpt = "none" /\ kpt_vis = "none"
    /\ in_kpt = "none" /\ in_vis = "none"
    /\ calls = <<>> /\ ret = "none"

ColInit ==
    /\ \E b \in 0 .. MaxBatch : data_batch \in [1 .. b -> Samples]
    /\ out_ms = NotCalled
    /\ out_stack = NotCalled
    /\ KptIdle
    /\ AsgIdle
    /\ BspIdle

CollateMs ==
    /\ out_ms = NotCalled
    /\ out_ms' = yolov5_collate(data_batch, TRUE)
    /\ UNCHANGED <<data_batch, out_stack, kptvars, asgvars, bspvars>>

CollateStack ==
    /\ out_stack = NotCalled
    /\ out_stack' = yolov5_collate(data_batch, FALSE)
    /\ UNCHANGED <<data_batch, out_ms, kptvars, asgvars, bspvars>>

ColNext ==
    \/ CollateMs
    \/ CollateStack

SpecCollate == ColInit /\ [][ColNext]_vars

\* Number of ground-truth instances of the samples before sample i.
RECURSIVE Offset(_)
Offset(i) == IF i <= 1 THEN 0 ELSE Offset(i - 1) + Len(data_batch[i - 1].labels)

\* The samples' inputs all have one shape (the caller's pre-padding).
UniformInputs ==
    \A i \in 1 .. Len(data_batch) :
        data_batch[i].inputs.shape = data_batch[1].inputs.shape

\* The table holds one row per instance, grouped by ascending image index
\* and in instance order: (image index, label, box).
TableOf(t) ==
    /\ Len(t) = Offset(Len(data_batch) + 1)
    /\ \A i \in 1 .. Len(data_batch) :
         \A r \in 1 .. Len(data_batch[i].labels) :
            LET row == t[Offset(i) + r]
            IN  /\ Len(row) = 6
                /\ row[1] = i - 1
                /\ row[2] = data_batch[i].labels[r]
                /\ SubSeq(row, 3, 6) = data_batch[i].bboxes[r]
    /\ \A a, b \in 1 .. Len(t) : a <= b => t[a][1] <= t[b][1]

\* C3: for a non-empty batch yolov5_collate returns a table with one row per
\* ground-truth instance, (image index, label, box), grouped by ascending
\* image index and in instance order; a sample without instances adds no
\* row and does not make the call raise.  (Stacking needs inputs of one
\* shape.)
C3_InstanceTable ==
    /\ (data_batch # <<>> /\ out_ms # NotCalled) =>
            ~out_ms.raised /\ TableOf(out_ms.data_samples)
    /\ (data_batch # <<>> /\ UniformInputs /\ out_stack # NotCalled) =>
            ~out_stack.raised /\ TableOf(out_stack.data_samples)

\* A collated batch of two samples, the first without instances, the second
\* with two.
C3_Witness ==
    /\ Len(data_batch) = 2
    /\ Len(data_batch[1].labels) = 0
    /\ Len(data_batch[2].labels) = 2
    /\ data_batch[2].labels[1] # data_batch[2].labels[2]
    /\ out_stack # NotCalled
    /\ ~out_stack.raised
    /\ Len(out_stack.data_samples) = 2

\* C4: both modes return the same table; with use_ms_training the inputs are
\* the list of the samples' inputs in order, without it the same inputs
\* stacked in order along a new leading axis.
C4_ModesAgree ==
    (/\ data_batch # <<>>
     /\ UniformInputs
     /\ out_ms # NotCalled
     /\ out_stack # NotCalled) =>
        /\ ~out_ms.raised /\ ~out_stack.raised
        /\ out_ms.data_samples = out_stack.data_samples
        /\ Len(out_ms.inputs) = Len(data_batch)
        /\ \A i \in 1 .. Len(data_batch) :
             out_ms.inputs[i] = data_batch[i].inputs
        /\ out_stack.inputs.shape =
                <<Len(data_batch)>> \o data_batch[1].inputs.shape
        /\ Len(out_stack.inputs.data) = Len(data_batch)
        /\ \A i \in 1 .. Len(data_batch) :
             out_stack.inputs.data[i] = data_batch[i].inputs.data

\* Both modes called on two samples with different images and some
\* instances.
C4_Witness ==
    /\ Len(data_batch) = 2
    /\ UniformInputs
    /\ data_batch[1].inputs # data_batch[2].inputs
    /\ out_ms # NotCalled /\ out_stack # NotCalled
    /\ ~out_ms.raised /\ ~out_stack.raised
    /\ Len(out_ms.data_samples) >= 2

-----------------------------------------------------------------------------
(* The assigner as a state machine: one image, assigned once.              *)

\* Number of ground truths of the image.
NumGt == IF cost = <<>> THEN 0 ELSE Len(cost[1])

AsgInit ==
    /\ \E np \in 1 .. MaxPred, ng \in 0 .. MaxGts :
         /\ cost \in [1 .. np -> [1 .. ng -> CostVals]]
         /\ pairwise_ious \in [1 .. np -> [1 .. ng -> IouVals]]
    /\ selected = <<>>
    /\ matching_matrix = <<>>
    /\ assigned = FALSE
    /\ KptIdle
    /\ ColIdle
    /\ BspIdle

RECURSIVE Picks(_)
\* The selections of the first g ground truths: one lowest-k set for each.
Picks(g) ==
    IF g = 0 THEN {<<>>}
    ELSE {Append(s, S) : s \in Picks(g - 1),
                         S \in LowestK(cost, g, dynamic_k(pairwise_ious, g))}

\* Dynamic-k selection for every ground truth, then conflict resolution.
Assign ==
    /\ ~assigned
    /\ \E pick \in Picks(NumGt) :
         /\ selected' = [p \in 1 .. Len(cost) |-> [g \in 1 .. NumGt |->
                            IF p \in pick[g] THEN 1 ELSE 0]]
         /\ matching_matrix' = ResolveConflicts(selected', cost, NumGt)
    /\ assigned' = TRUE
    /\ UNCHANGED <<cost, pairwise_ious, kptvars, colvars, bspvars>>

AsgNext == Assign

SpecAssign == AsgInit /\ [][AsgNext]_vars

\* C10: after dynamic-k selection and conflict resolution no prediction is
\* assigned to two ground truths, and a prediction selected by several
\* ground truths keeps exactly its assignment of lowest cost among them.
C10_ConflictFree ==
    assigned =>
        \A p \in 1 .. Len(cost) :
            LET sel == MatchedGts(selected, p, NumGt)
                got == MatchedGts(matching_matrix, p, NumGt)
            IN  /\ Cardinality(got) <= 1
                /\ Cardinality(sel) > 1 =>
                     /\ Cardinality(got) = 1
                     /\ got \subseteq sel
                     /\ \A g \in got, h \in sel : cost[p][g] <= cost[p][h]

\* A prediction selected by two ground truths at different costs, resolved.
C10_Witness ==
    /\ assigned
    /\ \E p \in 1 .. Len(cost) :
         /\ MatchedGts(selected, p, NumGt) = {1, 2}
         /\ cost[p][2] < cost[p][1]
         /\ MatchedGts(matching_matrix, p, NumGt) = {2}

-----------------------------------------------------------------------------
(* BatchShapePolicy as a state machine: a policy as constructed, called    *)
(* once on a data_list.                                                    *)

BspInit ==
    /\ \E bs \in 1 .. MaxBatchSize, sz \in Sizes, pad \in PadRatios :
         self = [batch_size |-> bs, img_size |-> sz[1], size_divisor |-> sz[2],
                 extra_pad_ratio |-> pad]
    /\ \E n \in 0 .. MaxItems :
         \E d \in [1 .. n -> Dims \X Dims] :
            data_list = [i \in 1 .. n |->
                            [id |-> i, width |-> d[i][1], height |-> d[i][2]]]
    /\ bsp_out = NotCalled
    /\ KptIdle
    /\ ColIdle
    /\ AsgIdle

\* data_list = policy(data_list)
Call ==
    /\ bsp_out = NotCalled
    /\ \/ /\ data_list = <<>>
          /\ bsp_out' = BatchShapePolicy_call(self, data_list, <<>>)
       \/ /\ data_list # <<>>
          /\ \E irect \in ArgSorts(aspect_ratio(data_list)) :
                bsp_out' = BatchShapePolicy_call(self, data_list, irect)
    /\ UNCHANGED <<self, data_list, kptvars, colvars, asgvars>>

BspNext == Call

SpecBatchShape == BspInit /\ [][BspNext]_vars

\* The call returned a list (it did not raise).
Returned == bsp_out # NotCalled /\ ~bsp_out.raised

\* The positions of the returned list that fall in batch b (0-based).
BatchPositions(b) ==
    {i \in 1 .. Len(bsp_out.data_list) : batch_index(i, self.batch_size) = b}

\* The batches of the returned list.
Batches == {batch_index(i, self.batch_size) : i \in 1 .. Len(bsp_out.data_list)}

\* height / width of the returned item at position i.
RatioAt(i) == <<bsp_out.data_list[i].height, bsp_out.data_list[i].width>>

\* The largest and the smallest height / width ratio among the items of batch b.
LargestRatio(b) ==
    RatioAt(CHOOSE i \in BatchPositions(b) :
                \A j \in BatchPositions(b) : FracLeq(RatioAt(j), RatioAt(i)))

SmallestRatio(b) ==
    RatioAt(CHOOSE i \in BatchPositions(b) :
                \A j \in BatchPositions(b) : FracLeq(RatioAt(i), RatioAt(j)))

\* ceil(img_size / size_divisor + extra_pad_ratio) * size_divisor
LargestSide ==
    LET num == self.img_size * self.extra_pad_ratio[2]
               + self.extra_pad_ratio[1] * self.size_divisor
        den == self.size_divisor * self.extra_pad_ratio[2]
    IN  (IF num % den = 0 THEN num \div den ELSE num \div den + 1)
        * self.size_divisor

\* C11: after BatchShapePolicy.__call__ on a non-empty data_list of images
\* with positive widths and heights, the items of one batch of the returned
\* order carry the same batch_shape; each of its two dimensions is a positive
\* multiple of size_divisor, at most ceil(img_size / size_divisor +
\* extra_pad_ratio) * size_divisor; and the batch's shape ratio is
\* [max_ratio, 1] when the batch's largest height / width ratio is below 1,
\* [1, 1 / min_ratio] when its smallest is above 1, and [1, 1] otherwise.
C11_BatchShapes ==
    Returned =>
        /\ \A i, j \in 1 .. Len(bsp_out.data_list) :
              batch_index(i, self.batch_size) = batch_index(j, self.batch_size)
              => bsp_out.data_list[i].batch_shape
                 = bsp_out.data_list[j].batch_shape
        /\ \A i \in 1 .. Len(bsp_out.data_list) : \A d \in 1 .. 2 :
              LET side == bsp_out.data_list[i].batch_shape[d]
              IN  /\ side > 0
                  /\ side % self.size_divisor = 0
                  /\ side <= LargestSide
        /\ \A b \in Batches :
              LET shape == bsp_out.shapes[b + 1]
                  hi == LargestRatio(b)
                  lo == SmallestRatio(b)
              IN  IF hi[1] < hi[2]
                  THEN FracEq(shape[1], hi) /\ FracEq(shape[2], <<1, 1>>)
                  ELSE IF lo[1] > lo[2]
                  THEN /\ FracEq(shape[1], <<1, 1>>)
                       /\ FracEq(shape[2], <<lo[2], lo[1]>>)
                  ELSE FracEq(shape[1], <<1, 1>>) /\ FracEq(shape[2], <<1, 1>>)

\* A call on an unsorted list that returned a two-image batch of wide images
\* of different ratios, followed by a batch of a tall image, the two batches
\* with different batch shapes.
C11_Witness ==
    /\ Returned
    /\ Batches = {0, 1}
    /\ BatchPositions(0) = {1, 2}
    /\ FracLess(RatioAt(1), RatioAt(2))
    /\ FracLess(RatioAt(2), <<1, 1>>)
    /\ FracLess(<<1, 1>>, RatioAt(3))
    /\ bsp_out.data_list[1].batch_shape # bsp_out.data_list[3].batch_shape
    /\ bsp_out.data_list[1].batch_shape[1] < bsp_out.data_list[1].batch_shape[2]
    /\ bsp_out.data_list[1].id # 1

\* C12: BatchShapePolicy.__call__ on a non-empty data_list returns a
\* permutation of the input items (same length, every input item exactly
\* once), ordered by non-decreasing height / width ratio, and every returned
\* item has a batch_shape entry.
C12_SortedPermutation ==
    (bsp_out # NotCalled /\ data_list # <<>>) =>
        /\ ~bsp_out.raised
        /\ Len(bsp_out.data_list) = Len(data_list)
        /\ \A i \in 1 .. Len(data_list) :
              /\ Cardinality({j \in 1 .. Len(bsp_out.data_list) :
                                 bsp_out.data_list[j].id = i}) = 1
              /\ \E j \in 1 .. Len(bsp_out.data_list) :
                    /\ bsp_out.data_list[j].id = data_list[i].id
                    /\ bsp_out.data_list[j].width = data_list[i].width
                    /\ bsp_out.data_list[j].height = data_list[i].height
        /\ \A j \in 1 .. Len(bsp_out.data_list) - 1 :
              FracLeq(RatioAt(j), RatioAt(j + 1))
        /\ \A j \in 1 .. Len(bsp_out.data_list) :
              "batch_shape" \in DOMAIN bsp_out.data_list[j]

\* A call on three images of three different ratios, given in decreasing
\* order of ratio, that returned them reversed.
C12_Witness ==
    /\ Returned
    /\ Len(data_list) = 3
    /\ FracLess(<<data_list[3].height, data_list[3].width>>,
                <<data_list[2].height, data_list[2].width>>)
    /\ FracLess(<<data_list[2].height, data_list[2].width>>,
                <<data_list[1].height, data_list[1].width>>)
    /\ bsp_out.data_list[1].id = 3
    /\ bsp_out.data_list[2].id = 2
    /\ bsp_out.data_list[3].id = 1

====
